---- MODULE Spec2Model ----
(***************************************************************************)
(* The recursive reduce program of sp1 (recursion/program/src/reduce.rs):  *)
(* build_reduce reads a batch of shard proofs from the witness, threads    *)
(* the Fiat-Shamir challengers through the batch and verifies every proof  *)
(* with the base (RISC-V) or the recursion machine.                        *)
(*                                                                         *)
(* A challenger (duplex sponge) is modelled by the sequence of the field   *)
(* elements it has absorbed: two challengers are equal iff they absorbed   *)
(* the same elements in the same order, the empty sequence is the fresh    *)
(* sponge.                                                                 *)
(*                                                                         *)
(* build_reduce is straight-line code around one loop, so the order in     *)
(* which it emits the operations is the order in which the compiled        *)
(* program runs them; pc follows that order.  One thing differs between    *)
(* the two: a Rust assignment inside a builder closure takes effect when   *)
(* the closure is traced, whatever the run-time condition is (see          *)
(* reconstruct_challenger below).                                          *)
(***************************************************************************)
EXTENDS Integers, Sequences, FiniteSets, TLC

\* ------------------------------------------------------------- bounds
\* The largest batch (number of proofs in the witness).
MaxProofs == 3

\* ---------------------------------------------------------- constants
\* sp1_recursion_core::runtime::DIGEST_SIZE
DIGEST_SIZE == 8
\* builder.get(&proof.public_values, 32): the 0-based offset of the shard index
SHARD_OFFSET == 32
\* num2bits_f / bits2num_v: bits of a BabyBear element
NUM_BITS == 31

\* RiscvAir::machine(SC::default()) and RecursionAir::machine(SC::default())
sp1_machine == "RiscvAir"
recursion_machine == "RecursionAir"

\* ------------------------------------------------------- the challenger
\* DuplexChallengerVariable::new: the fresh, empty sponge.
NewChallenger == << >>

\* observe(element): absorb one field element.
Observe(ch, element) == Append(ch, element)

\* The elements arr[from .. to] observed one after the other, in index order.
ObserveRange(ch, arr, from, to) ==
    ch \o [j \in 1..(to - from + 1) |-> arr[from + j - 1]]

\* observe of a slice / array: its elements in index order.
ObserveSlice(ch, arr) == ObserveRange(ch, arr, 1, Len(arr))

\* for j in 0..DIGEST_SIZE { observe(builder.get(&digest, j)) }
ObserveDigest(ch, digest) == ObserveRange(ch, digest, 1, DIGEST_SIZE)

\* as_clone: an independent copy of the challenger.
AsClone(ch) == ch

\* clone(builder, var): the value stored into a one-element array and read back.
Clone(var) ==
    LET arr == [k \in {0} |-> var]
    IN  arr[0]

\* felt_to_var: the felt's bits (num2bits_f, least significant first), recomposed
\* as a var (bits2num_v).
Num2Bits(x, n) == [k \in 1..n |-> (x \div (2 ^ (k - 1))) % 2]

RECURSIVE Bits2Num(_)
Bits2Num(bits) == IF bits = << >> THEN 0 ELSE Head(bits) + 2 * Bits2Num(Tail(bits))

felt_to_var(felt) == Bits2Num(Num2Bits(felt, NUM_BITS))

\* ------------------------------------------------------------ the inputs
\* A digest of DIGEST_SIZE distinct field elements, one per tag.
Digest(tag) == [j \in 1..DIGEST_SIZE |-> 100 * tag + j]

\* A public-values vector: distinct elements, the shard index at SHARD_OFFSET.
PublicValues(tag, shard_index, len) ==
    [j \in 1..len |-> IF j = SHARD_OFFSET + 1 THEN shard_index ELSE 1000 * tag + j]

\* The verifying keys of the two machines.
Sp1Vk == [commitment |-> Digest(8)]
RecursionVk == [commitment |-> Digest(9)]

\* Preprocessed column order and domains of the two machines.
Sp1PrepSortedIndices == <<0, 2, 1>>
Sp1PrepDomains == <<[log_n |-> 3, shift |-> 1], [log_n |-> 4, shift |-> 1]>>
RecursionPrepSortedIndices == <<1, 0>>
RecursionPrepDomains == <<[log_n |-> 5, shift |-> 1]>>

\* The shard proofs a witness may hold.  `machine` is the machine whose prover
\* produced the proof; `opening` stands for the opening data the verifier
\* absorbs into the challenger it is given.
ShardProof(tag, shard_index, len, machine) ==
    [ commitment    |-> [main_commit |-> Digest(tag)],
      public_values |-> PublicValues(tag, shard_index, len),
      opening       |-> 10000 + tag,
      machine       |-> machine ]

Proofs ==
    { ShardProof(1, 1, SHARD_OFFSET + 1, sp1_machine),
      ShardProof(2, 2, SHARD_OFFSET + 3, sp1_machine),
      ShardProof(3, 3, SHARD_OFFSET + 2, recursion_machine) }

\* 0 = base, nonzero = recursive.
Flags == {0, 1}

\* Challenger states a witness may carry.
WitnessedChallengers == { <<41>>, <<42>> }
ResumeChallengers == { << >>, <<51>> }
\* What a challenger cell that no executed operation has initialised may hold.
UninitChallengers == { << >>, <<99>> }

SeqsUpTo(S, n) == UNION { [1..k -> S] : k \in 0..n }

\* A batch: one (proof, flag) pair per position.
Batches == SeqsUpTo(Proofs \X Flags, MaxProofs)

\* sorted_indices[i]: one column order per proof, told apart by position.
SortedIndicesFor(n) == [k \in 1..n |-> <<k, 0>>]

Witnesses ==
    { [ proofs                        |-> [k \in 1..Len(b) |-> b[k][1]],
        is_recursive_flags            |-> [k \in 1..Len(b) |-> b[k][2]],
        sorted_indices                |-> SortedIndicesFor(Len(b)),
        sp1_challenger                |-> wc,
        reconstruct_challenger        |-> rc,
        prep_sorted_indices           |-> Sp1PrepSortedIndices,
        prep_domains                  |-> Sp1PrepDomains,
        recursion_prep_sorted_indices |-> RecursionPrepSortedIndices,
        recursion_prep_domains        |-> RecursionPrepDomains,
        sp1_vk                        |-> Sp1Vk,
        recursion_vk                  |-> RecursionVk ] :
      b \in Batches,
      wc \in WitnessedChallengers,
      rc \in ResumeChallengers }

\* The witness as the program finds it: one block per input, in the order the
\* blocks are laid out; every read takes the next block.
WitnessLayout ==
    << "proofs", "is_recursive_flags", "sorted_indices", "sp1_challenger",
       "reconstruct_challenger", "prep_sorted_indices", "prep_domains",
       "recursion_prep_sorted_indices", "recursion_prep_domains", "sp1_vk",
       "recursion_vk" >>

WitnessStream(w) == [k \in 1..Len(WitnessLayout) |-> w[WitnessLayout[k]]]

\* T::read(&mut builder), as the k-th read of the program: the k-th block.
ReadBlock(stream, k) == stream[k]

\* ----------------------------------------------- the commitment-scheme config
\* Val::TWO_ADICITY of the BabyBear field (p = 2^31 - 2^27 + 1).
TWO_ADICITY == 27

\* Val::two_adic_generator(bits) for bits = 0 .. 26: 0x1a427a41, the generator of
\* the subgroup of order 2^27, squared 27 - bits times (each entry is the square
\* of the next one).
TwoAdicGenerators ==
    <<
       1, 2013265920, 1728404513, 1592366214, 196396260, 760005850,
       1721589904, 397765732, 1732600167, 1753498361, 341742893, 1340477990,
       1282623253, 298008106, 1657000625, 2009781145, 1421947380, 1286330022,
       1559589183, 1049899240, 195061667, 414040701, 570250684, 1267047229,
       1003846038, 1149491290, 975630072 >>

two_adic_generator(bits) == TwoAdicGenerators[bits + 1]

\* inner_fri_config()
inner_fri_config == [log_blowup |-> 1, num_queries |-> 100, proof_of_work_bits |-> 16]

\* Configs const_fri_config may be given.
FriConfigs ==
    { inner_fri_config,
      [log_blowup |-> 2, num_queries |-> 50, proof_of_work_bits |-> 8] }

\* A variant of const_fri_config whose domain at index k has log size k + 1.
const_fri_config_OneBased(cfg) ==
    [ log_blowup         |-> cfg.log_blowup,
      num_queries        |-> cfg.num_queries,
      proof_of_work_bits |-> cfg.proof_of_work_bits,
      subgroups          |->
          [k \in 0..(TWO_ADICITY - 1) |-> [log_n |-> k + 1, shift |-> 1]],
      generators         |-> [k \in 0..(TWO_ADICITY - 1) |-> two_adic_generator(k)] ]

\* const_fri_config: arrays indexed 0 .. TWO_ADICITY - 1.
const_fri_config(cfg) ==
    [ log_blowup         |-> cfg.log_blowup,
      num_queries        |-> cfg.num_queries,
      proof_of_work_bits |-> cfg.proof_of_work_bits,
      subgroups          |-> [k \in 0..(TWO_ADICITY - 1) |-> [log_n |-> k, shift |-> 1]],
      generators         |-> [k \in 0..(TWO_ADICITY - 1) |-> two_adic_generator(k)] ]

\* The config the program builds; a constant of the program.
InnerConfigVariable == const_fri_config(inner_fri_config)

\* time.elapsed(): what the clock may say the build took.
BuildTimes == {1, 2}

\* ------------------------------------------------ the verification primitive
\* StarkVerifier::verify_shard: whether the proof is accepted under the given
\* verifying key, config, machine and column orders.  A proof is accepted by the
\* machine that produced it, with that machine's key and preprocessed data.
MachineVk(machine) == IF machine = sp1_machine THEN Sp1Vk ELSE RecursionVk
MachinePrepSortedIndices(machine) ==
    IF machine = sp1_machine THEN Sp1PrepSortedIndices ELSE RecursionPrepSortedIndices
MachinePrepDomains(machine) ==
    IF machine = sp1_machine THEN Sp1PrepDomains ELSE RecursionPrepDomains

verify_shard(vk, pcs, machine, prf, prep_sorted, prep_doms) ==
    /\ prf.machine = machine
    /\ vk = MachineVk(machine)
    /\ pcs = [config |-> InnerConfigVariable]
    /\ prep_sorted = MachinePrepSortedIndices(machine)
    /\ prep_doms = MachinePrepDomains(machine)

\* The challenger after verify_shard: the proof's opening data absorbed.
verify_shard_challenger(ch, prf) == Observe(ch, prf.opening)

\* ------------------------------------------------------------------ state
VARIABLES
    pc,                             \* the statement of build_reduce to run next
    pcs,                            \* TwoAdicFriPcsVariable { config }
    proofs,                         \* the witness values, as read
    is_recursive_flags,
    sorted_indices,
    sp1_challenger,
    reconstruct_read,               \* the challenger read at line 109
    prep_sorted_indices,
    prep_domains,
    recursion_prep_sorted_indices,
    recursion_prep_domains,
    sp1_vk,
    recursion_vk,
    num_proofs,
    witness_stream,                 \* the blocks of the witness, as laid out
    witness_reads,                  \* the inputs read so far, in the order of the reads
    pre_reconstruct_challenger,     \* the copy taken at line 118
    recursion_challenger,
    reconstruct_challenger,         \* the challenger the loop body addresses
    uninit_challenger,              \* what that challenger held before any operation ran
    i,                              \* the loop variable
    proof,                          \* the loop body's locals
    sorted,
    is_recursive,
    shard,
    current_challenger,
    verify_calls,                   \* the verify_shard calls made, in order
    satisfiable,                    \* no verify_shard constraint has failed
    public_values,                  \* the public values the program has committed
    program,                        \* the RecursionProgram compile_program returns
    elapsed,                        \* the build time measured at line 220
    resets,                         \* how often lines 144-145 have run
    reconstruct_before,             \* reconstruct_challenger as the iteration found it
    trace,                          \* the phases of build_reduce entered so far
    steps,                          \* the steps taken so far
    instances,                      \* which challenger instance each name holds
    network_feature,                \* sdk: the crate is built with feature "network"
    client,                         \* sdk: the ProverClient, once constructed
    constructor,                    \* sdk: the constructor that has been called
    panicked,                       \* sdk: a constructor has panicked
    key_store,                      \* sdk: the key pairs setup has returned
    proof_store,                    \* sdk: the proofs prove has returned
    exec_results,                   \* sdk: what the execute calls returned, in order
    verify_results,                 \* sdk: the verify calls and what they returned
    sdk_calls                       \* sdk: the calls the provers have received

vars ==
    << pc, pcs, proofs, is_recursive_flags, sorted_indices, sp1_challenger,
       reconstruct_read, prep_sorted_indices, prep_domains,
       recursion_prep_sorted_indices, recursion_prep_domains, sp1_vk, recursion_vk,
       num_proofs, witness_stream, witness_reads, pre_reconstruct_challenger,
       recursion_challenger, reconstruct_challenger, uninit_challenger, i, proof,
       sorted, is_recursive,
       shard, current_challenger, verify_calls, satisfiable, public_values, program,
       elapsed, resets, reconstruct_before, trace, steps, instances, network_feature,
       client, constructor,
       panicked, key_store, proof_store, exec_results, verify_results, sdk_calls >>

sdk_vars ==
    << network_feature, client, constructor, panicked, key_store, proof_store, exec_results,
       verify_results, sdk_calls >>

reduce_vars ==
    << pc, pcs, proofs, is_recursive_flags, sorted_indices, sp1_challenger,
       reconstruct_read, prep_sorted_indices, prep_domains,
       recursion_prep_sorted_indices, recursion_prep_domains, sp1_vk, recursion_vk,
       num_proofs, witness_stream, witness_reads, pre_reconstruct_challenger,
       recursion_challenger, reconstruct_challenger, uninit_challenger, i, proof, sorted,
       is_recursive, shard, current_challenger, verify_calls, satisfiable,
       public_values, program, elapsed, resets, reconstruct_before, trace, steps,
       instances >>

witness_vars ==
    << proofs, is_recursive_flags, sorted_indices, sp1_challenger, reconstruct_read,
       prep_sorted_indices, prep_domains, recursion_prep_sorted_indices,
       recursion_prep_domains, sp1_vk, recursion_vk, num_proofs, witness_stream,
       witness_reads >>

local_vars == << proof, sorted, is_recursive, shard >>

output_vars == << public_values, program, elapsed >>

\* A value not yet assigned.
None == "none"

\* The phase entered, recorded once.
Enter(phase) ==
    IF trace # << >> /\ trace[Len(trace)] = phase THEN trace ELSE Append(trace, phase)

\* Challenger instances are numbered in the order of their allocation (a read from
\* the witness, new, as_clone); `of` says which instance a name of build_reduce
\* holds (0: none yet; the challenger of line 144 is instance 0 until its `new`
\* has run), `verified` lists the instances handed to verify_shard, and
\* `iteration_start` is the first number not yet allocated when the current
\* iteration began.
NoInstances ==
    [ next            |-> 1,
      iteration_start |-> 1,
      verified        |-> << >>,
      of              |-> [ sp1_challenger             |-> 0,
                            reconstruct_read           |-> 0,
                            pre_reconstruct_challenger |-> 0,
                            recursion_challenger       |-> 0,
                            reconstruct_challenger     |-> 0,
                            current_challenger         |-> 0 ] ]

\* The next instance goes to `name`.
Allocate(inst, name) ==
    [inst EXCEPT !.next = inst.next + 1, !.of[name] = inst.next]

\* The instance `name` holds goes to verify_shard.
HandToVerify(inst, name) ==
    [inst EXCEPT !.verified = Append(inst.verified, inst.of[name])]

\* The statement (reduce.rs:144) `reconstruct_challenger = DuplexChallengerVariable::new(builder)`
\* is inside the closure of `if_eq(shard, one).then(..)`.  The builder calls the
\* closure once, while it records the loop body, so from there on the Rust variable
\* names the challenger allocated inside the `then` block: the observations of
\* lines 151-154 are recorded against that challenger in every iteration, also in
\* the iterations whose shard index is not 1.  Until an iteration with shard index
\* 1 has run, nothing has initialised that challenger: its content is whatever the
\* cells hold, chosen here among UninitChallengers.  The challenger read from the
\* witness (reconstruct_read) is addressed by line 118 only.
ReduceInit ==
    /\ pc = "BuildConfig"
    /\ pcs = None
    /\ proofs = << >>
    /\ is_recursive_flags = << >>
    /\ sorted_indices = << >>
    /\ sp1_challenger = None
    /\ reconstruct_read = None
    /\ prep_sorted_indices = None
    /\ prep_domains = None
    /\ recursion_prep_sorted_indices = None
    /\ recursion_prep_domains = None
    /\ sp1_vk = None
    /\ recursion_vk = None
    /\ num_proofs = 0
    /\ witness_stream = << >>
    /\ witness_reads = << >>
    /\ pre_reconstruct_challenger = None
    /\ recursion_challenger = None
    /\ uninit_challenger \in UninitChallengers
    /\ reconstruct_challenger = uninit_challenger
    /\ i = 0
    /\ proof = None
    /\ sorted = None
    /\ is_recursive = None
    /\ shard = None
    /\ current_challenger = None
    /\ verify_calls = << >>
    /\ satisfiable = TRUE
    /\ public_values = << >>
    /\ program = [compiled |-> FALSE, public_values |-> << >>]
    /\ elapsed = None
    /\ resets = 0
    /\ reconstruct_before = None
    /\ trace = << >>
    /\ steps = << >>
    /\ instances = NoInstances

\* No ProverClient has been constructed.
NoClient == [prover |-> None]

\* No ProverClient is in play.
SdkIdle ==
    /\ network_feature = FALSE
    /\ client = NoClient
    /\ constructor = None
    /\ panicked = FALSE
    /\ key_store = {}
    /\ proof_store = {}
    /\ exec_results = << >>
    /\ verify_results = << >>
    /\ sdk_calls = << >>

Init == ReduceInit /\ SdkIdle

\* ---------------------------------------------------------------- actions
\* A variant of BuildConfig that passes the scheme parameters on without building
\* the tables of generators and subgroups.
BuildConfig_NoTables ==
    /\ pc = "BuildConfig"
    /\ steps' = Append(steps, "BuildConfig")
    /\ pcs' = [config |-> inner_fri_config]
    /\ pc' = "ReadWitness"
    /\ trace' = Enter("BuildConfig")
    /\ UNCHANGED << sdk_vars, instances, uninit_challenger, witness_vars,
                    pre_reconstruct_challenger, recursion_challenger,
                    reconstruct_challenger, i, local_vars, current_challenger,
                    verify_calls, satisfiable, output_vars, resets,
                    reconstruct_before >>

\* reduce.rs:101-102
BuildConfig ==
    /\ pc = "BuildConfig"
    /\ steps' = Append(steps, "BuildConfig")
    /\ pcs' = [config |-> const_fri_config(inner_fri_config)]
    /\ pc' = "ReadWitness"
    /\ trace' = Enter("BuildConfig")
    /\ UNCHANGED << sdk_vars, instances, uninit_challenger, witness_vars,
                    pre_reconstruct_challenger, recursion_challenger,
                    reconstruct_challenger, i, local_vars, current_challenger,
                    verify_calls, satisfiable, output_vars, resets,
                    reconstruct_before >>

\* A variant of ReadWitness that reads the two challengers in the other order.
ReadWitness_ChallengersSwapped ==
    /\ pc = "ReadWitness"
    /\ steps' = Append(steps, "ReadWitness")
    /\ instances' = Allocate(Allocate(instances, "sp1_challenger"), "reconstruct_read")
    /\ \E w \in Witnesses :
          LET stream == WitnessStream(w)
          IN  /\ witness_stream' = stream
              /\ proofs' = ReadBlock(stream, 1)
              /\ is_recursive_flags' = ReadBlock(stream, 2)
              /\ sorted_indices' = ReadBlock(stream, 3)
              /\ reconstruct_read' = ReadBlock(stream, 4)
              /\ sp1_challenger' = ReadBlock(stream, 5)
              /\ prep_sorted_indices' = ReadBlock(stream, 6)
              /\ prep_domains' = ReadBlock(stream, 7)
              /\ recursion_prep_sorted_indices' = ReadBlock(stream, 8)
              /\ recursion_prep_domains' = ReadBlock(stream, 9)
              /\ sp1_vk' = ReadBlock(stream, 10)
              /\ recursion_vk' = ReadBlock(stream, 11)
              /\ num_proofs' = Len(ReadBlock(stream, 1))
    /\ witness_reads' =
           witness_reads \o
               << "proofs", "is_recursive_flags", "sorted_indices",
                  "reconstruct_challenger", "sp1_challenger", "prep_sorted_indices",
                  "prep_domains",
                  "recursion_prep_sorted_indices", "recursion_prep_domains", "sp1_vk",
                  "recursion_vk" >>
    /\ pc' = "ClonePreReconstruct"
    /\ trace' = Enter("ReadWitness")
    /\ UNCHANGED << sdk_vars, pcs, uninit_challenger, pre_reconstruct_challenger,
                    recursion_challenger, reconstruct_challenger, i, local_vars,
                    current_challenger, verify_calls, satisfiable, output_vars, resets,
                    reconstruct_before >>

\* reduce.rs:105-116
ReadWitness ==
    /\ pc = "ReadWitness"
    /\ steps' = Append(steps, "ReadWitness")
    /\ instances' = Allocate(Allocate(instances, "sp1_challenger"), "reconstruct_read")
    /\ \E w \in Witnesses :
          LET stream == WitnessStream(w)
          IN  /\ witness_stream' = stream
              /\ proofs' = ReadBlock(stream, 1)
              /\ is_recursive_flags' = ReadBlock(stream, 2)
              /\ sorted_indices' = ReadBlock(stream, 3)
              /\ sp1_challenger' = ReadBlock(stream, 4)
              /\ reconstruct_read' = ReadBlock(stream, 5)
              /\ prep_sorted_indices' = ReadBlock(stream, 6)
              /\ prep_domains' = ReadBlock(stream, 7)
              /\ recursion_prep_sorted_indices' = ReadBlock(stream, 8)
              /\ recursion_prep_domains' = ReadBlock(stream, 9)
              /\ sp1_vk' = ReadBlock(stream, 10)
              /\ recursion_vk' = ReadBlock(stream, 11)
              /\ num_proofs' = Len(ReadBlock(stream, 1))
    /\ witness_reads' =
           witness_reads \o
               << "proofs", "is_recursive_flags", "sorted_indices", "sp1_challenger",
                  "reconstruct_challenger", "prep_sorted_indices", "prep_domains",
                  "recursion_prep_sorted_indices", "recursion_prep_domains", "sp1_vk",
                  "recursion_vk" >>
    /\ pc' = "ClonePreReconstruct"
    /\ trace' = Enter("ReadWitness")
    /\ UNCHANGED << sdk_vars, pcs, uninit_challenger, pre_reconstruct_challenger,
                    recursion_challenger, reconstruct_challenger, i, local_vars,
                    current_challenger, verify_calls, satisfiable, output_vars, resets,
                    reconstruct_before >>

\* reduce.rs:118
ClonePreReconstruct ==
    /\ pc = "ClonePreReconstruct"
    /\ steps' = Append(steps, "ClonePreReconstruct")
    /\ instances' = Allocate(instances, "pre_reconstruct_challenger")
    /\ pre_reconstruct_challenger' = Clone(reconstruct_read)
    /\ pc' = "SetupRecursionChallenger"
    /\ UNCHANGED << sdk_vars, pcs, uninit_challenger, witness_vars,
                    recursion_challenger, reconstruct_challenger, i, local_vars,
                    current_challenger, verify_calls, satisfiable, output_vars, resets,
                    reconstruct_before, trace >>

\* reduce.rs:123-128
SetupRecursionChallenger ==
    /\ pc = "SetupRecursionChallenger"
    /\ steps' = Append(steps, "SetupRecursionChallenger")
    /\ instances' = Allocate(instances, "recursion_challenger")
    /\ recursion_challenger' = ObserveDigest(NewChallenger, recursion_vk.commitment)
    /\ pc' = "Loop"
    /\ trace' = Enter("InitRecursionTranscript")
    /\ UNCHANGED << sdk_vars, pcs, uninit_challenger, witness_vars,
                    pre_reconstruct_challenger, reconstruct_challenger, i, local_vars,
                    current_challenger, verify_calls, satisfiable, output_vars, resets,
                    reconstruct_before >>

\* The reconstructed challenger as the iteration finds it: the one read from the
\* witness as long as no base-case proof has been processed, the running one after.
ReconstructAtEntry ==
    IF \A k \in 1..i : is_recursive_flags[k] # 0
    THEN reconstruct_read
    ELSE reconstruct_challenger

\* reduce.rs:130-136: the next iteration; the proof, its column order and its flag
\* are loaded and the branch is taken on the flag.
LoadProof ==
    /\ pc = "Loop"
    /\ steps' = Append(steps, "LoadProof")
    /\ instances' = [instances EXCEPT !.iteration_start = instances.next]
    /\ i < num_proofs
    /\ proof' = proofs[i + 1]
    /\ sorted' = sorted_indices[i + 1]
    /\ is_recursive' = is_recursive_flags[i + 1]
    /\ shard' = None
    /\ current_challenger' = None
    /\ reconstruct_before' = ReconstructAtEntry
    /\ pc' = IF is_recursive_flags[i + 1] = 0 THEN "ReadShard" ELSE "RecursiveClone"
    /\ trace' = Enter("ForEachProof")
    /\ UNCHANGED << sdk_vars, pcs, uninit_challenger, witness_vars,
                    pre_reconstruct_challenger, recursion_challenger,
                    reconstruct_challenger, i, verify_calls, satisfiable, output_vars,
                    resets >>

\* A variant of ReadShard that takes the first-shard branch whatever the index.
ReadShard_AlwaysFirst ==
    /\ pc = "ReadShard"
    /\ steps' = Append(steps, "ReadShard")
    /\ shard' = felt_to_var(proof.public_values[SHARD_OFFSET + 1])
    /\ pc' = "FirstShard"
    /\ UNCHANGED << sdk_vars, instances, pcs, uninit_challenger, witness_vars,
                    pre_reconstruct_challenger, recursion_challenger,
                    reconstruct_challenger, i, proof, sorted, is_recursive,
                    current_challenger, verify_calls, satisfiable, output_vars, resets,
                    reconstruct_before, trace >>

\* reduce.rs:139-142: the shard index, and the test for the first shard.
ReadShard ==
    /\ pc = "ReadShard"
    /\ steps' = Append(steps, "ReadShard")
    /\ shard' = felt_to_var(proof.public_values[SHARD_OFFSET + 1])
    /\ pc' = IF shard' = 1 THEN "FirstShard" ELSE "ObserveCommit"
    /\ UNCHANGED << sdk_vars, instances, pcs, uninit_challenger, witness_vars,
                    pre_reconstruct_challenger, recursion_challenger,
                    reconstruct_challenger, i, proof, sorted, is_recursive,
                    current_challenger, verify_calls, satisfiable, output_vars, resets,
                    reconstruct_before, trace >>

\* A variant of FirstShard that starts afresh without absorbing the verifying key.
FirstShard_NoVk ==
    /\ pc = "FirstShard"
    /\ steps' = Append(steps, "FirstShard")
    /\ instances' = Allocate(instances, "reconstruct_challenger")
    /\ reconstruct_challenger' = NewChallenger
    /\ resets' = resets + 1
    /\ pc' = "ObserveCommit"
    /\ UNCHANGED << sdk_vars, pcs, uninit_challenger, witness_vars,
                    pre_reconstruct_challenger, recursion_challenger, i, local_vars,
                    current_challenger, verify_calls, satisfiable, output_vars,
                    reconstruct_before, trace >>

\* A variant of FirstShard that absorbs the verifying key on top of the prior state.
FirstShard_KeepPrior ==
    /\ pc = "FirstShard"
    /\ steps' = Append(steps, "FirstShard")
    /\ instances' = Allocate(instances, "reconstruct_challenger")
    /\ reconstruct_challenger' = ObserveSlice(reconstruct_challenger, sp1_vk.commitment)
    /\ resets' = resets + 1
    /\ pc' = "ObserveCommit"
    /\ UNCHANGED << sdk_vars, pcs, uninit_challenger, witness_vars,
                    pre_reconstruct_challenger, recursion_challenger, i, local_vars,
                    current_challenger, verify_calls, satisfiable, output_vars,
                    reconstruct_before, trace >>

\* reduce.rs:143-145: the first shard starts the reconstructed challenger afresh.
FirstShard ==
    /\ pc = "FirstShard"
    /\ steps' = Append(steps, "FirstShard")
    /\ instances' = Allocate(instances, "reconstruct_challenger")
    /\ reconstruct_challenger' = ObserveSlice(NewChallenger, sp1_vk.commitment)
    /\ resets' = resets + 1
    /\ pc' = "ObserveCommit"
    /\ UNCHANGED << sdk_vars, pcs, uninit_challenger, witness_vars,
                    pre_reconstruct_challenger, recursion_challenger, i, local_vars,
                    current_challenger, verify_calls, satisfiable, output_vars,
                    reconstruct_before, trace >>

\* A variant of ObserveCommit whose absorption reaches the snapshot of line 118 too.
ObserveCommit_Aliased ==
    /\ pc = "ObserveCommit"
    /\ steps' = Append(steps, "ObserveCommit")
    /\ reconstruct_challenger' =
           ObserveDigest(reconstruct_challenger, proof.commitment.main_commit)
    /\ pre_reconstruct_challenger' =
           ObserveDigest(pre_reconstruct_challenger, proof.commitment.main_commit)
    /\ pc' = "VerifyBase"
    /\ UNCHANGED << sdk_vars, instances, pcs, uninit_challenger, witness_vars,
                    recursion_challenger, i, local_vars, current_challenger,
                    verify_calls, satisfiable, output_vars, resets, reconstruct_before,
                    trace >>

\* reduce.rs:150-154: the proof's main commit goes into the reconstructed challenger.
ObserveCommit ==
    /\ pc = "ObserveCommit"
    /\ steps' = Append(steps, "ObserveCommit")
    /\ reconstruct_challenger' =
           ObserveDigest(reconstruct_challenger, proof.commitment.main_commit)
    /\ pc' = "VerifyBase"
    /\ UNCHANGED << sdk_vars, instances, pcs, uninit_challenger, witness_vars,
                    pre_reconstruct_challenger, recursion_challenger, i, local_vars,
                    current_challenger, verify_calls, satisfiable, output_vars, resets,
                    reconstruct_before, trace >>

\* One verify_shard call, as the log keeps it.
VerifyCall(index, vk, machine, ch, prf, srt, prep_sorted, prep_doms) ==
    [ index               |-> index,
      vk                  |-> vk,
      machine             |-> machine,
      challenger          |-> ch,
      proof               |-> prf,
      sorted_indices      |-> srt,
      prep_sorted_indices |-> prep_sorted,
      prep_domains        |-> prep_doms,
      ok                  |-> verify_shard(vk, pcs, machine, prf, prep_sorted, prep_doms) ]

\* A variant of VerifyBase whose verify_shard call constrains nothing.
VerifyBase_Unchecked ==
    /\ pc = "VerifyBase"
    /\ steps' = Append(steps, "VerifyBase")
    /\ instances' =
           HandToVerify(Allocate(instances, "current_challenger"), "current_challenger")
    /\ LET forked == AsClone(sp1_challenger)
           call   == VerifyCall(i, sp1_vk, sp1_machine, forked, proof, sorted,
                                prep_sorted_indices, prep_domains)
       IN  /\ verify_calls' = Append(verify_calls, call)
           /\ current_challenger' = verify_shard_challenger(forked, proof)
    /\ i' = i + 1
    /\ pc' = "Loop"
    /\ UNCHANGED << sdk_vars, pcs, uninit_challenger, witness_vars,
                    pre_reconstruct_challenger, recursion_challenger, satisfiable,
                    reconstruct_challenger, local_vars, output_vars, resets,
                    reconstruct_before, trace >>

\* A variant of VerifyBase that forks the reconstructed challenger.
VerifyBase_Reconstructed ==
    /\ pc = "VerifyBase"
    /\ steps' = Append(steps, "VerifyBase")
    /\ instances' =
           HandToVerify(Allocate(instances, "current_challenger"), "current_challenger")
    /\ LET forked == AsClone(reconstruct_challenger)
           call   == VerifyCall(i, sp1_vk, sp1_machine, forked, proof, sorted,
                                prep_sorted_indices, prep_domains)
       IN  /\ verify_calls' = Append(verify_calls, call)
           /\ satisfiable' = (satisfiable /\ call.ok)
           /\ current_challenger' = verify_shard_challenger(forked, proof)
    /\ i' = i + 1
    /\ pc' = "Loop"
    /\ UNCHANGED << sdk_vars, pcs, uninit_challenger, witness_vars,
                    pre_reconstruct_challenger, recursion_challenger,
                    reconstruct_challenger, local_vars, output_vars, resets,
                    reconstruct_before, trace >>

\* A variant of VerifyBase that hands the witnessed challenger itself to
\* verify_shard.
VerifyBase_NoFork ==
    /\ pc = "VerifyBase"
    /\ steps' = Append(steps, "VerifyBase")
    /\ instances' = HandToVerify(instances, "sp1_challenger")
    /\ LET forked == sp1_challenger
           call   == VerifyCall(i, sp1_vk, sp1_machine, forked, proof, sorted,
                                prep_sorted_indices, prep_domains)
       IN  /\ verify_calls' = Append(verify_calls, call)
           /\ satisfiable' = (satisfiable /\ call.ok)
           /\ sp1_challenger' = verify_shard_challenger(forked, proof)
    /\ i' = i + 1
    /\ pc' = "Loop"
    /\ UNCHANGED << sdk_vars, pcs, uninit_challenger, proofs, is_recursive_flags,
                    sorted_indices, reconstruct_read, prep_sorted_indices,
                    prep_domains, recursion_prep_sorted_indices,
                    recursion_prep_domains, sp1_vk, recursion_vk, num_proofs,
                    witness_stream, witness_reads, current_challenger,
                    pre_reconstruct_challenger, recursion_challenger,
                    reconstruct_challenger, local_vars, output_vars, resets,
                    reconstruct_before, trace >>

\* reduce.rs:159-171: the proof is verified with a copy of the witnessed challenger.
VerifyBase ==
    /\ pc = "VerifyBase"
    /\ steps' = Append(steps, "VerifyBase")
    /\ instances' =
           HandToVerify(Allocate(instances, "current_challenger"), "current_challenger")
    /\ LET forked == AsClone(sp1_challenger)
           call   == VerifyCall(i, sp1_vk, sp1_machine, forked, proof, sorted,
                                prep_sorted_indices, prep_domains)
       IN  /\ verify_calls' = Append(verify_calls, call)
           /\ satisfiable' = (satisfiable /\ call.ok)
           /\ current_challenger' = verify_shard_challenger(forked, proof)
    /\ i' = i + 1
    /\ pc' = "Loop"
    /\ UNCHANGED << sdk_vars, pcs, uninit_challenger, witness_vars,
                    pre_reconstruct_challenger, recursion_challenger,
                    reconstruct_challenger, local_vars, output_vars, resets,
                    reconstruct_before, trace >>

\* A variant of RecursiveClone that absorbs the commit into the reconstructed
\* challenger as well.
RecursiveClone_IntoReconstruct ==
    /\ pc = "RecursiveClone"
    /\ steps' = Append(steps, "RecursiveClone")
    /\ instances' = Allocate(instances, "current_challenger")
    /\ current_challenger' =
           ObserveDigest(AsClone(recursion_challenger), proof.commitment.main_commit)
    /\ reconstruct_challenger' =
           ObserveDigest(reconstruct_challenger, proof.commitment.main_commit)
    /\ pc' = "ObservePublicValues"
    /\ UNCHANGED << sdk_vars, pcs, uninit_challenger, witness_vars,
                    pre_reconstruct_challenger, recursion_challenger, i, local_vars,
                    verify_calls, satisfiable, output_vars, resets, reconstruct_before,
                    trace >>

\* A variant of RecursiveClone that absorbs into the recursion challenger itself.
RecursiveClone_NoFork ==
    /\ pc = "RecursiveClone"
    /\ steps' = Append(steps, "RecursiveClone")
    /\ instances' = Allocate(instances, "current_challenger")
    /\ recursion_challenger' =
           ObserveDigest(recursion_challenger, proof.commitment.main_commit)
    /\ current_challenger' = recursion_challenger'
    /\ pc' = "ObservePublicValues"
    /\ UNCHANGED << sdk_vars, pcs, uninit_challenger, witness_vars,
                    pre_reconstruct_challenger, reconstruct_challenger, i, local_vars,
                    verify_calls, satisfiable, output_vars, resets, reconstruct_before,
                    trace >>

\* reduce.rs:177-182: a copy of the recursion challenger absorbs the main commit.
RecursiveClone ==
    /\ pc = "RecursiveClone"
    /\ steps' = Append(steps, "RecursiveClone")
    /\ instances' = Allocate(instances, "current_challenger")
    /\ current_challenger' =
           ObserveDigest(AsClone(recursion_challenger), proof.commitment.main_commit)
    /\ pc' = "ObservePublicValues"
    /\ UNCHANGED << sdk_vars, pcs, uninit_challenger, witness_vars,
                    pre_reconstruct_challenger, recursion_challenger,
                    reconstruct_challenger, i, local_vars, verify_calls, satisfiable,
                    output_vars, resets, reconstruct_before, trace >>

\* A variant of ObservePublicValues that stops one element short.
ObservePublicValues_SkipLast ==
    /\ pc = "ObservePublicValues"
    /\ steps' = Append(steps, "ObservePublicValues")
    /\ current_challenger' =
           ObserveRange(current_challenger, proof.public_values, 1,
                        Len(proof.public_values) - 1)
    /\ pc' = "VerifyRecursive"
    /\ UNCHANGED << sdk_vars, instances, pcs, uninit_challenger, witness_vars,
                    pre_reconstruct_challenger, recursion_challenger,
                    reconstruct_challenger, i, local_vars, verify_calls, satisfiable,
                    output_vars, resets, reconstruct_before, trace >>

\* reduce.rs:183-188: then every public value, in order.
ObservePublicValues ==
    /\ pc = "ObservePublicValues"
    /\ steps' = Append(steps, "ObservePublicValues")
    /\ current_challenger' =
           ObserveRange(current_challenger, proof.public_values, 1,
                        Len(proof.public_values))
    /\ pc' = "VerifyRecursive"
    /\ UNCHANGED << sdk_vars, instances, pcs, uninit_challenger, witness_vars,
                    pre_reconstruct_challenger, recursion_challenger,
                    reconstruct_challenger, i, local_vars, verify_calls, satisfiable,
                    output_vars, resets, reconstruct_before, trace >>

\* A variant of VerifyRecursive that passes the base preprocessed data.
VerifyRecursive_BasePrep ==
    /\ pc = "VerifyRecursive"
    /\ steps' = Append(steps, "VerifyRecursive")
    /\ instances' = HandToVerify(instances, "current_challenger")
    /\ LET call == VerifyCall(i, recursion_vk, recursion_machine, current_challenger,
                              proof, sorted, prep_sorted_indices, prep_domains)
       IN  /\ verify_calls' = Append(verify_calls, call)
           /\ satisfiable' = (satisfiable /\ call.ok)
           /\ current_challenger' = verify_shard_challenger(current_challenger, proof)
    /\ i' = i + 1
    /\ pc' = "Loop"
    /\ UNCHANGED << sdk_vars, pcs, uninit_challenger, witness_vars,
                    pre_reconstruct_challenger, recursion_challenger,
                    reconstruct_challenger, local_vars, output_vars, resets,
                    reconstruct_before, trace >>

\* reduce.rs:189-200
VerifyRecursive ==
    /\ pc = "VerifyRecursive"
    /\ steps' = Append(steps, "VerifyRecursive")
    /\ instances' = HandToVerify(instances, "current_challenger")
    /\ LET call == VerifyCall(i, recursion_vk, recursion_machine, current_challenger,
                              proof, sorted, recursion_prep_sorted_indices,
                              recursion_prep_domains)
       IN  /\ verify_calls' = Append(verify_calls, call)
           /\ satisfiable' = (satisfiable /\ call.ok)
           /\ current_challenger' = verify_shard_challenger(current_challenger, proof)
    /\ i' = i + 1
    /\ pc' = "Loop"
    /\ UNCHANGED << sdk_vars, pcs, uninit_challenger, witness_vars,
                    pre_reconstruct_challenger, recursion_challenger,
                    reconstruct_challenger, local_vars, output_vars, resets,
                    reconstruct_before, trace >>

\* reduce.rs:130-132, 203: the range is exhausted.
LoopExit ==
    /\ pc = "Loop"
    /\ steps' = Append(steps, "LoopExit")
    /\ i >= num_proofs
    /\ pc' = "Compile"
    /\ trace' = Enter("ForEachProof")
    /\ UNCHANGED << sdk_vars, instances, pcs, uninit_challenger, witness_vars,
                    pre_reconstruct_challenger, recursion_challenger,
                    reconstruct_challenger, i, local_vars, current_challenger,
                    verify_calls, satisfiable, output_vars, resets,
                    reconstruct_before >>

\* A variant of Compile that puts the measured time into the program.
Compile_Timed ==
    /\ pc = "Compile"
    /\ steps' = Append(steps, "Compile")
    /\ \E t \in BuildTimes :
          /\ elapsed' = t
          /\ program' = [compiled |-> TRUE, public_values |-> Append(public_values, t)]
    /\ pc' = "Done"
    /\ trace' = Enter("Compile")
    /\ UNCHANGED << sdk_vars, instances, pcs, uninit_challenger, witness_vars,
                    pre_reconstruct_challenger, recursion_challenger,
                    reconstruct_challenger, i, local_vars, current_challenger,
                    verify_calls, satisfiable, public_values, resets,
                    reconstruct_before >>

\* A variant of Compile that first asserts that the witnessed challenger equals the
\* reconstructed one.
Compile_Checked ==
    /\ pc = "Compile"
    /\ steps' = Append(steps, "Compile")
    /\ program' = [compiled |-> TRUE, public_values |-> public_values]
    /\ \E t \in BuildTimes : elapsed' = t
    /\ satisfiable' = (satisfiable /\ sp1_challenger = reconstruct_challenger)
    /\ pc' = "Done"
    /\ trace' = Enter("Compile")
    /\ UNCHANGED << sdk_vars, instances, pcs, uninit_challenger, witness_vars,
                    pre_reconstruct_challenger, recursion_challenger,
                    reconstruct_challenger, i, local_vars, current_challenger,
                    verify_calls, public_values, resets, reconstruct_before >>

\* reduce.rs:205-222: nothing is committed between the loop and compile_program;
\* the time the build took is measured and printed.
Compile ==
    /\ pc = "Compile"
    /\ steps' = Append(steps, "Compile")
    /\ program' = [compiled |-> TRUE, public_values |-> public_values]
    /\ \E t \in BuildTimes : elapsed' = t
    /\ pc' = "Done"
    /\ trace' = Enter("Compile")
    /\ UNCHANGED << sdk_vars, instances, pcs, uninit_challenger, witness_vars,
                    pre_reconstruct_challenger, recursion_challenger,
                    reconstruct_challenger, i, local_vars, current_challenger,
                    verify_calls, satisfiable, public_values, resets,
                    reconstruct_before >>

Next ==
    \/ BuildConfig
    \/ ReadWitness
    \/ ClonePreReconstruct
    \/ SetupRecursionChallenger
    \/ LoadProof
    \/ ReadShard
    \/ FirstShard
    \/ ObserveCommit
    \/ VerifyBase
    \/ RecursiveClone
    \/ ObservePublicValues
    \/ VerifyRecursive
    \/ LoopExit
    \/ Compile

Spec == Init /\ [][Next]_vars

FairSpec == Spec /\ WF_vars(Next)

\* ------------------------------------------------------- the sdk: ProverClient
\* The longest sequence of calls made on one client.
MaxCalls == 3

\* The programs, inputs and proof modes of the calls.
Elfs == {"fibonacci", "ecrecover"}
Stdins == {10, 11}
ProofModes == {"core", "plonk"}

\* The Prover trait, as MockProver, LocalProver and NetworkProver implement it:
\* setup derives both keys from the program; prove returns a proof for the
\* program of the proving key, a mock one from the mock prover; verify accepts a
\* proof under the verifying key of its program, the mock prover any such proof,
\* the other provers a real one only.
ProverSetup(kind, elf) ==
    [pk |-> [program |-> elf, key |-> "pk"], vk |-> [program |-> elf, key |-> "vk"]]

ProverProve(kind, pk, stdin, mode) ==
    [ program |-> pk.program,
      stdin   |-> stdin,
      mode    |-> mode,
      by      |-> IF kind = "mock" THEN "mock" ELSE "real" ]

ProverExecute(kind, elf, stdin) == [program |-> elf, stdin |-> stdin]

ProverVerify(kind, prf, vk) ==
    IF prf.program = vk.program /\ (kind = "mock" \/ prf.by = "real")
    THEN "Ok"
    ELSE "Err"

\* A call as the prover that receives it logs it.
ProverCall(kind, op) == [prover |-> kind, op |-> op]

SdkInit ==
    /\ ReduceInit
    /\ network_feature \in BOOLEAN
    /\ client = NoClient
    /\ constructor = None
    /\ panicked = FALSE
    /\ key_store = {}
    /\ proof_store = {}
    /\ exec_results = << >>
    /\ verify_results = << >>
    /\ sdk_calls = << >>

CanConstruct == client = NoClient /\ ~panicked

CanCall == client # NoClient /\ Len(sdk_calls) < MaxCalls

\* lib.rs:73-77
ClientMock ==
    /\ CanConstruct
    /\ constructor' = "mock"
    /\ client' = [prover |-> "mock"]
    /\ UNCHANGED << reduce_vars, network_feature, panicked, key_store, proof_store,
                    exec_results, verify_results, sdk_calls >>

\* lib.rs:90-94
ClientLocal ==
    /\ CanConstruct
    /\ constructor' = "local"
    /\ client' = [prover |-> "local"]
    /\ UNCHANGED << reduce_vars, network_feature, panicked, key_store, proof_store,
                    exec_results, verify_results, sdk_calls >>

\* A variant of ClientNetwork that returns a network client whatever the features.
ClientNetwork_Ungated ==
    /\ CanConstruct
    /\ constructor' = "network"
    /\ client' = [prover |-> "network"]
    /\ UNCHANGED << reduce_vars, network_feature, panicked, key_store, proof_store,
                    exec_results, verify_results, sdk_calls >>

\* lib.rs:107-117
ClientNetwork ==
    /\ CanConstruct
    /\ constructor' = "network"
    /\ IF network_feature
       THEN client' = [prover |-> "network"] /\ UNCHANGED panicked
       ELSE panicked' = TRUE /\ UNCHANGED client
    /\ UNCHANGED << reduce_vars, network_feature, key_store, proof_store, exec_results,
                    verify_results, sdk_calls >>

\* lib.rs:236-238
ClientSetup ==
    /\ CanCall
    /\ \E elf \in Elfs :
          key_store' = key_store \cup {ProverSetup(client.prover, elf)}
    /\ sdk_calls' = Append(sdk_calls, ProverCall(client.prover, "setup"))
    /\ UNCHANGED << reduce_vars, network_feature, client, constructor, panicked, proof_store,
                    exec_results, verify_results >>

\* lib.rs:184-186, with the run of the returned action
ClientProve ==
    /\ CanCall
    /\ \E keys \in key_store, stdin \in Stdins, mode \in ProofModes :
          proof_store' =
              proof_store \cup {ProverProve(client.prover, keys.pk, stdin, mode)}
    /\ sdk_calls' = Append(sdk_calls, ProverCall(client.prover, "prove"))
    /\ UNCHANGED << reduce_vars, network_feature, client, constructor, panicked, key_store,
                    exec_results, verify_results >>

\* lib.rs:147-149, with the run of the returned action
ClientExecute ==
    /\ CanCall
    /\ \E elf \in Elfs, stdin \in Stdins :
          exec_results' = Append(exec_results, ProverExecute(client.prover, elf, stdin))
    /\ sdk_calls' = Append(sdk_calls, ProverCall(client.prover, "execute"))
    /\ UNCHANGED << reduce_vars, network_feature, client, constructor, panicked, key_store,
                    proof_store, verify_results >>

\* A variant of ClientVerify that hands the proof to the local prover, whatever
\* prover the client holds.
ClientVerify_ByLocal ==
    /\ CanCall
    /\ \E prf \in proof_store, keys \in key_store :
          verify_results' =
              Append(verify_results,
                     [ proof  |-> prf,
                       vk     |-> keys.vk,
                       result |-> ProverVerify("local", prf, keys.vk) ])
    /\ sdk_calls' = Append(sdk_calls, ProverCall("local", "verify"))
    /\ UNCHANGED << reduce_vars, network_feature, client, constructor, panicked, key_store,
                    proof_store, exec_results >>

\* lib.rs:204-210
ClientVerify ==
    /\ CanCall
    /\ \E prf \in proof_store, keys \in key_store :
          verify_results' =
              Append(verify_results,
                     [ proof  |-> prf,
                       vk     |-> keys.vk,
                       result |-> ProverVerify(client.prover, prf, keys.vk) ])
    /\ sdk_calls' = Append(sdk_calls, ProverCall(client.prover, "verify"))
    /\ UNCHANGED << reduce_vars, network_feature, client, constructor, panicked, key_store,
                    proof_store, exec_results >>

SdkNext ==
    \/ ClientMock
    \/ ClientLocal
    \/ ClientNetwork
    \/ ClientSetup
    \/ ClientProve
    \/ ClientExecute
    \/ ClientVerify

SdkSpec == SdkInit /\ [][SdkNext]_vars

\* ------------------------------------------------------- reference values
\* The shard index a proof declares.
ShardIndex(prf) == prf.public_values[SHARD_OFFSET + 1]

IsBase(k) == is_recursive_flags[k] = 0

\* The positions 1..n of the batch that hold base-case proofs.
BasePositions(n) == { k \in 1..n : IsBase(k) }

\* The positions 1..n that hold base-case proofs of shard index 1.
FirstShardPositions(n) == { k \in BasePositions(n) : ShardIndex(proofs[k]) = 1 }

\* The main commits of the base-case proofs at positions from..to, concatenated.
RECURSIVE BaseCommits(_, _)
BaseCommits(from, to) ==
    IF from > to THEN << >>
    ELSE (IF IsBase(from) THEN proofs[from].commitment.main_commit ELSE << >>)
             \o BaseCommits(from + 1, to)

\* The reconstructed challenger a sponge computed apart from the program holds
\* after the first n proofs: the base verifying key and the commits from the last
\* first shard on or, without one, the commits on top of the start value.
ReferenceReconstruct(start, n) ==
    IF FirstShardPositions(n) = {}
    THEN start \o BaseCommits(1, n)
    ELSE LET last == CHOOSE k \in FirstShardPositions(n) :
                         \A m \in FirstShardPositions(n) : m <= k
         IN  sp1_vk.commitment \o BaseCommits(last, n)

\* recursion_init: the empty sponge with the recursion key's commitment absorbed.
RecursionInit == recursion_vk.commitment

IsPrefix(a, b) == Len(a) <= Len(b) /\ \A k \in 1..Len(a) : a[k] = b[k]

AfterLoop == pc \in {"Compile", "Done"}

InLoop ==
    pc \in {"Loop", "ReadShard", "FirstShard", "ObserveCommit", "VerifyBase",
            "RecursiveClone", "ObservePublicValues", "VerifyRecursive"}

\* The loop body has passed lines 139-146 of the current base-case iteration.
PastFirstShardTest == pc \in {"ObserveCommit", "VerifyBase"}

\* ------------------------------------------------------------------ claims

\* C1: for a batch of base-case proofs only, whose first proof declares shard
\* index 1 and no later proof does, the reconstructed challenger after the loop is
\* the empty sponge with the base verifying key's commitment and then every
\* proof's main commit absorbed, in submission order.
OneExecutionBatch ==
    /\ num_proofs > 0
    /\ \A k \in 1..num_proofs : IsBase(k)
    /\ ShardIndex(proofs[1]) = 1
    /\ \A k \in 2..num_proofs : ShardIndex(proofs[k]) # 1

RECURSIVE AllCommits(_)
AllCommits(ps) ==
    IF ps = << >> THEN << >> ELSE Head(ps).commitment.main_commit \o AllCommits(Tail(ps))

C1_BaseBatchReconstruct ==
    (AfterLoop /\ OneExecutionBatch) =>
        reconstruct_challenger = NewChallenger \o Sp1Vk.commitment \o AllCommits(proofs)

C1_Witness ==
    /\ pc = "Done"
    /\ OneExecutionBatch
    /\ num_proofs = 2
    /\ reconstruct_challenger =
           Sp1Vk.commitment \o proofs[1].commitment.main_commit
                            \o proofs[2].commitment.main_commit

\* C2 as claimed: the reconstructed challenger is re-initialised exactly once per
\* batch, only at a base-case proof of shard index 1, and right after it holds the
\* base verifying key's commitment and nothing else.
JustReset == pc = "ObserveCommit" /\ shard = 1

ResetsExpected ==
    Cardinality(FirstShardPositions(i)) + (IF PastFirstShardTest /\ shard = 1 THEN 1 ELSE 0)

ReconstructDiscarded ==
    \/ resets' # resets
    \/ ~IsPrefix(reconstruct_challenger, reconstruct_challenger')

C3_NonFirstShardExtends ==
    (pc = "VerifyBase" /\ shard # 1) =>
        reconstruct_challenger = reconstruct_before \o proof.commitment.main_commit

\* C4: the challenger handed to verify_shard for a recursive-case proof is
\* recursion_init with the proof's main commit and then all its public values
\* absorbed, in order.
RecursiveTranscript(prf) ==
    NewChallenger \o RecursionVk.commitment \o prf.commitment.main_commit
                  \o prf.public_values

C4_RecursiveTranscript ==
    /\ Len(verify_calls) >= i
    /\ \A n \in 1..Len(verify_calls) :
           ~IsBase(n) => verify_calls[n].challenger = RecursiveTranscript(proofs[n])
    /\ pc = "VerifyRecursive" => current_challenger = RecursiveTranscript(proof)

C4_Witness ==
    /\ pc = "Done"
    /\ \E n \in 1..num_proofs :
           /\ ~IsBase(n)
           /\ Len(proofs[n].public_values) > SHARD_OFFSET + 1
           /\ verify_calls[n].challenger = RecursiveTranscript(proofs[n])

\* C5: the reconstructed challenger is a function of the base-case proofs alone:
\* at every loop head, during every recursive-case iteration and after the loop it
\* is the reference value computed from the base-case proofs processed so far, in
\* their order, whatever recursive-case proofs stand among them.
C5_BaseIndependentOfRecursive ==
    (pc \in {"Loop", "RecursiveClone", "ObservePublicValues", "VerifyRecursive",
             "Compile", "Done"}) =>
        reconstruct_challenger = ReferenceReconstruct(uninit_challenger, i)

C5_Witness ==
    /\ pc = "Done"
    /\ num_proofs = 3
    /\ IsBase(1) /\ ~IsBase(2) /\ IsBase(3)
    /\ reconstruct_challenger = ReferenceReconstruct(uninit_challenger, 3)

\* C6 as claimed: with exactly one reset, at the proof of shard index 1, the final
\* reconstructed challenger is the same however many base-case proofs of another
\* shard index precede or follow that proof.
TheFirstShard == CHOOSE k \in FirstShardPositions(num_proofs) : TRUE

C6_Original ==
    (AfterLoop /\ Cardinality(FirstShardPositions(num_proofs)) = 1) =>
        reconstruct_challenger =
            NewChallenger \o Sp1Vk.commitment
                          \o proofs[TheFirstShard].commitment.main_commit

\* C6 (amended): with exactly one reset, at the proof of shard index 1, the final
\* reconstructed challenger does not depend on the proofs before that proof, and
\* it does depend on the base-case proofs after it: it is the base verifying key's
\* commitment, then the main commit of the shard-1 proof and of every base-case
\* proof that follows it, in order.
C6_ResetDiscardsPrefix ==
    (AfterLoop /\ Cardinality(FirstShardPositions(num_proofs)) = 1) =>
        reconstruct_challenger =
            NewChallenger \o Sp1Vk.commitment \o BaseCommits(TheFirstShard, num_proofs)

C6_Witness ==
    /\ pc = "Done"
    /\ num_proofs = 3
    /\ \A k \in 1..3 : IsBase(k)
    /\ FirstShardPositions(3) = {2}
    /\ reconstruct_challenger =
           Sp1Vk.commitment \o proofs[2].commitment.main_commit
                            \o proofs[3].commitment.main_commit

\* C7: the loop takes the proofs in index order, without early exit, and calls
\* verify_shard exactly once per proof: with the base key, machine and
\* preprocessed data for flag 0, with the recursion key, machine and preprocessed
\* data for a nonzero flag, and always with that proof and its own sorted_indices.
CallMatchesFlag(n) ==
    LET call == verify_calls[n]
    IN  /\ call.index = n - 1
        /\ call.proof = proofs[n]
        /\ call.sorted_indices = sorted_indices[n]
        /\ IF is_recursive_flags[n] = 0
           THEN /\ call.vk = Sp1Vk
                /\ call.machine = sp1_machine
                /\ call.prep_sorted_indices = Sp1PrepSortedIndices
                /\ call.prep_domains = Sp1PrepDomains
           ELSE /\ call.vk = RecursionVk
                /\ call.machine = recursion_machine
                /\ call.prep_sorted_indices = RecursionPrepSortedIndices
                /\ call.prep_domains = RecursionPrepDomains

C7_EveryProofVerifiedOnce ==
    /\ Len(verify_calls) = i
    /\ i <= num_proofs
    /\ \A n \in 1..Len(verify_calls) : CallMatchesFlag(n)
    /\ AfterLoop => i = num_proofs
    /\ (InLoop /\ pc # "Loop") => /\ proof = proofs[i + 1]
                                  /\ sorted = sorted_indices[i + 1]
                                  /\ is_recursive = is_recursive_flags[i + 1]

C7_Witness ==
    /\ pc = "Done"
    /\ num_proofs = 3
    /\ Len(verify_calls) = 3
    /\ IsBase(1) /\ ~IsBase(2) /\ IsBase(3)
    /\ \A n \in 1..3 : CallMatchesFlag(n)

\* C8: the program is satisfiable only if every verify_shard call so far has
\* succeeded; after the loop it is satisfiable exactly if every proof of the batch
\* is accepted under the configuration its flag selects; no proof is verified twice.
Accepted(k) ==
    LET machine == IF IsBase(k) THEN sp1_machine ELSE recursion_machine
    IN  verify_shard(MachineVk(machine), [config |-> InnerConfigVariable], machine,
                     proofs[k], MachinePrepSortedIndices(machine),
                     MachinePrepDomains(machine))

C8_AllOrNothing ==
    /\ satisfiable = (\A n \in 1..Len(verify_calls) : verify_calls[n].ok)
    /\ \A m, n \in 1..Len(verify_calls) :
           m # n => verify_calls[m].index # verify_calls[n].index
    /\ AfterLoop => (satisfiable = (\A k \in 1..num_proofs : Accepted(k)))

C8_Witness ==
    /\ pc = "Done"
    /\ num_proofs = 3
    /\ ~satisfiable
    /\ Accepted(1) /\ ~Accepted(2) /\ Accepted(3)

\* C9 as claimed: the program ends by committing the eight public values
\* (committed-values digest, start pc, next pc, exit code, reconstructed challenger,
\* pre-reconstruction challenger, witnessed-start challenger, recursion key), in
\* an output-assembly step between the loop and the compilation.
C9_OutputEmitted ==
    pc = "Done" =>
        /\ Len(program.public_values) = 8
        /\ program.public_values[5] = reconstruct_challenger
        /\ program.public_values[6] = pre_reconstruct_challenger
        /\ program.public_values[7] = sp1_challenger
        /\ program.public_values[8] = recursion_vk
        /\ \E n \in 1..Len(trace) : trace[n] = "AssembleOutput"

\* C10 as claimed: the phases are entered in the order ReadWitness, BuildConfig,
\* InitRecursionTranscript, ForEachProof, AssembleOutput, Compile.
ClaimedOrder ==
    << "ReadWitness", "BuildConfig", "InitRecursionTranscript", "ForEachProof",
       "AssembleOutput", "Compile" >>

CodeOrder ==
    << "BuildConfig", "ReadWitness", "InitRecursionTranscript", "ForEachProof",
       "Compile" >>

\* The steps a run has left at most.
StepsLeft ==
    CASE pc = "BuildConfig"              -> 6 * MaxProofs + 6
      [] pc = "ReadWitness"              -> 6 * MaxProofs + 5
      [] pc = "ClonePreReconstruct"      -> 6 * MaxProofs + 4
      [] pc = "SetupRecursionChallenger" -> 6 * MaxProofs + 3
      [] pc = "Loop"                     -> 6 * (num_proofs - i) + 2
      [] pc = "ReadShard"                -> 6 * (num_proofs - i) + 1
      [] pc = "RecursiveClone"           -> 6 * (num_proofs - i) + 1
      [] pc = "FirstShard"               -> 6 * (num_proofs - i)
      [] pc = "ObservePublicValues"      -> 6 * (num_proofs - i)
      [] pc = "ObserveCommit"            -> 6 * (num_proofs - i) - 1
      [] pc = "VerifyBase"               -> 6 * (num_proofs - i) - 2
      [] pc = "VerifyRecursive"          -> 6 * (num_proofs - i) - 2
      [] pc = "Compile"                  -> 1
      [] OTHER                           -> 0

WitnessVar(name) ==
    CASE name = "proofs"                        -> proofs
      [] name = "is_recursive_flags"            -> is_recursive_flags
      [] name = "sorted_indices"                -> sorted_indices
      [] name = "sp1_challenger"                -> sp1_challenger
      [] name = "reconstruct_challenger"        -> reconstruct_read
      [] name = "prep_sorted_indices"           -> prep_sorted_indices
      [] name = "prep_domains"                  -> prep_domains
      [] name = "recursion_prep_sorted_indices" -> recursion_prep_sorted_indices
      [] name = "recursion_prep_domains"        -> recursion_prep_domains
      [] name = "sp1_vk"                        -> sp1_vk
      [] name = "recursion_vk"                  -> recursion_vk

WitnessRead == pc \notin {"BuildConfig", "ReadWitness"}

ClaimedReadOrder ==
    << "proofs", "is_recursive_flags", "sorted_indices", "sp1_challenger",
       "reconstruct_challenger", "prep_sorted_indices", "prep_domains",
       "recursion_prep_sorted_indices", "recursion_prep_domains", "sp1_vk",
       "recursion_vk" >>

C11_WitnessReadOnce ==
    /\ [](~WitnessRead => witness_reads = << >>)
    /\ [](WitnessRead =>
             /\ witness_reads = ClaimedReadOrder
             /\ \A k \in 1..Len(ClaimedReadOrder) :
                    WitnessVar(ClaimedReadOrder[k]) = witness_stream[k]
             /\ num_proofs = Len(witness_stream[1]))
    /\ [][witness_vars' # witness_vars =>
             /\ pc = "ReadWitness"
             /\ i = 0
             /\ verify_calls = << >>
             /\ recursion_challenger = None]_vars

C11_Witness ==
    /\ pc = "Done"
    /\ num_proofs = 3
    /\ witness_reads = ClaimedReadOrder
    /\ sp1_challenger = witness_stream[4]
    /\ reconstruct_read = witness_stream[5]
    /\ sp1_challenger # reconstruct_read

\* C12 as claimed: for a batch of size zero the loop runs no iteration and makes no
\* verify_shard call, the program is compiled, and its output carries the
\* transcripts unobserved: the reconstructed challenger is the one read from the
\* witness and the recursion challenger is recursion_init.
EmptyBatchDone == pc = "Done" /\ num_proofs = 0

C12_EmptyBatch ==
    EmptyBatchDone =>
        /\ i = 0
        /\ verify_calls = << >>
        /\ satisfiable
        /\ program.compiled
        /\ recursion_challenger = RecursionInit
        /\ reconstruct_challenger = reconstruct_read
        /\ \E n \in 1..Len(program.public_values) :
               program.public_values[n] = reconstruct_challenger

\* C13: a run is determined by the witness and the static configuration: the steps
\* taken are the sequence computed from the witness blocks, and the compiled
\* program, the verify_shard calls and the final challengers are the values
\* computed from the witness blocks (and, for the challenger of line 144, from what
\* its cells held at the start), whatever build time the clock measured.
\* The steps of a run on the given witness blocks, up to and including proof n.
StepsOfProof(stream, k) ==
    IF stream[2][k] = 0
    THEN << "LoadProof", "ReadShard" >>
             \o (IF stream[1][k].public_values[SHARD_OFFSET + 1] = 1
                 THEN << "FirstShard" >> ELSE << >>)
             \o << "ObserveCommit", "VerifyBase" >>
    ELSE << "LoadProof", "RecursiveClone", "ObservePublicValues", "VerifyRecursive" >>

RECURSIVE StepsOfLoop(_, _)
StepsOfLoop(stream, n) ==
    IF n = 0 THEN << >> ELSE StepsOfLoop(stream, n - 1) \o StepsOfProof(stream, n)

SetupSteps ==
    << "BuildConfig", "ReadWitness", "ClonePreReconstruct", "SetupRecursionChallenger" >>

ExpectedSteps(stream) ==
    SetupSteps \o StepsOfLoop(stream, Len(stream[1])) \o << "LoopExit", "Compile" >>

\* The verify_shard call for the proof at position k, from the witness blocks.
ExpectedCall(k) ==
    LET prf == witness_stream[1][k]
    IN  IF witness_stream[2][k] = 0
        THEN VerifyCall(k - 1, witness_stream[10], sp1_machine, witness_stream[4], prf,
                        witness_stream[3][k], witness_stream[6], witness_stream[7])
        ELSE VerifyCall(k - 1, witness_stream[11], recursion_machine,
                        witness_stream[11].commitment \o prf.commitment.main_commit
                                                      \o prf.public_values,
                        prf, witness_stream[3][k], witness_stream[8],
                        witness_stream[9])

ConfigVariableOf(v, cfg) ==
    /\ DOMAIN v = {"log_blowup", "num_queries", "proof_of_work_bits", "subgroups",
                   "generators"}
    /\ DOMAIN v.generators = 0..(TWO_ADICITY - 1)
    /\ DOMAIN v.subgroups = 0..(TWO_ADICITY - 1)
    /\ Cardinality(DOMAIN v.generators) = TWO_ADICITY
    /\ Cardinality(DOMAIN v.subgroups) = TWO_ADICITY
    /\ \A k \in 0..(TWO_ADICITY - 1) :
           /\ v.generators[k] = TwoAdicGenerators[k + 1]
           /\ v.subgroups[k] = [log_n |-> k, shift |-> 1]
    /\ v.generators[0] = 1
    /\ v.log_blowup = cfg.log_blowup
    /\ v.num_queries = cfg.num_queries
    /\ v.proof_of_work_bits = cfg.proof_of_work_bits

C14_ConstFriConfig ==
    /\ \A cfg \in FriConfigs : ConfigVariableOf(const_fri_config(cfg), cfg)
    /\ pc # "BuildConfig" => ConfigVariableOf(pcs.config, inner_fri_config)

C14_Witness ==
    /\ pc = "Done"
    /\ num_proofs = 3
    /\ pcs.config.generators[TWO_ADICITY - 1] = 975630072
    /\ pcs.config.subgroups[TWO_ADICITY - 1] = [log_n |-> TWO_ADICITY - 1, shift |-> 1]
    /\ pcs.config.num_queries = 100

\* C15: a proof that ProverClient::prove returned for the proving key of
\* setup(elf) is accepted by ProverClient::verify under the verifying key of the
\* same setup(elf), with the mock prover and with the local prover; every call of
\* setup, prove, execute and verify goes to the prover the client holds.
SameSetup(res) ==
    \E keys \in key_store :
        /\ res.vk = keys.vk
        /\ res.proof.program = keys.pk.program

C15_ProveVerifyRoundTrip ==
    /\ \A n \in 1..Len(sdk_calls) : sdk_calls[n].prover = client.prover
    /\ \A n \in 1..Len(verify_results) :
           SameSetup(verify_results[n]) => verify_results[n].result = "Ok"
    /\ sdk_calls # << >> => client.prover \in {"mock", "local", "network"}

C15_Witness ==
    /\ client.prover = "mock"
    /\ sdk_calls =
           << ProverCall("mock", "setup"), ProverCall("mock", "prove"),
              ProverCall("mock", "verify") >>
    /\ verify_results # << >>
    /\ verify_results[1].proof.mode = "plonk"
    /\ SameSetup(verify_results[1])
    /\ verify_results[1].result = "Ok"

\* C16: every base-case proof is verified with a fork of the witnessed challenger:
\* the challenger verify_shard receives is the one the witness carries, at every
\* position and whatever the reconstructed challenger holds, what verify_shard
\* absorbs stays in the fork, and the loop never changes the witnessed challenger.
C16_BaseVerifiedWithWitnessed ==
    /\ WitnessRead => sp1_challenger = witness_stream[4]
    /\ \A n \in 1..Len(verify_calls) :
           IsBase(n) => verify_calls[n].challenger = witness_stream[4]
    /\ (pc = "Loop" /\ i > 0 /\ IsBase(i)) =>
           /\ current_challenger = Observe(witness_stream[4], proofs[i].opening)
           /\ current_challenger # sp1_challenger

C16_Witness ==
    /\ pc = "Done"
    /\ num_proofs = 3
    /\ \A k \in 1..3 : IsBase(k)
    /\ resets = 1
    /\ sp1_challenger = <<42>>
    /\ reconstruct_challenger # sp1_challenger
    /\ \A k \in 1..3 : verify_calls[k].challenger = <<42>>

\* C17: the recursion challenger is written during the setup only: in and after
\* the loop it is recursion_init, whatever proofs have been processed; a
\* recursive-case proof absorbs into a fork and is verified with it, and what the
\* fork absorbs does not reach the recursion challenger.
C17_RecursionChallengerFrame ==
    /\ [](InLoop \/ AfterLoop =>
             recursion_challenger = NewChallenger \o witness_stream[11].commitment)
    /\ [](pc \in {"ObservePublicValues", "VerifyRecursive"} =>
             /\ IsPrefix(recursion_challenger, current_challenger)
             /\ current_challenger # recursion_challenger)
    /\ [][recursion_challenger' # recursion_challenger =>
             pc = "SetupRecursionChallenger"]_vars
    /\ [][(pc \in {"RecursiveClone", "ObservePublicValues", "VerifyRecursive"}) =>
             /\ current_challenger' # current_challenger
             /\ recursion_challenger' = recursion_challenger]_vars

C17_Witness ==
    /\ pc = "Done"
    /\ num_proofs = 3
    /\ ~IsBase(1) /\ IsBase(2) /\ ~IsBase(3)
    /\ recursion_challenger = RecursionVk.commitment
    /\ verify_calls[3].challenger # recursion_challenger
    /\ current_challenger # recursion_challenger

\* C18: no challenger instance goes to verify_shard twice: every call receives an
\* instance forked in the iteration that makes the call, and neither the witnessed,
\* nor the reconstructed, nor the recursion challenger (nor the challenger read at
\* line 109 or its copy) is ever handed to verify_shard.
Canonical ==
    { instances.of[name] :
        name \in {"sp1_challenger", "reconstruct_read", "pre_reconstruct_challenger",
                  "recursion_challenger", "reconstruct_challenger"} }

C18_FreshForkPerCall ==
    /\ [](Len(instances.verified) = Len(verify_calls))
    /\ [](\A m, n \in 1..Len(instances.verified) :
              m # n => instances.verified[m] # instances.verified[n])
    /\ [](\A n \in 1..Len(instances.verified) :
              /\ instances.verified[n] \notin Canonical
              /\ instances.verified[n] > 0)
    /\ [][instances'.verified # instances.verified =>
             /\ Len(instances'.verified) = Len(instances.verified) + 1
             /\ instances'.verified[Len(instances'.verified)] >= instances.iteration_start
             /\ instances'.verified[Len(instances'.verified)]
                    = instances'.of["current_challenger"]]_vars

C18_Witness ==
    /\ pc = "Done"
    /\ num_proofs = 3
    /\ IsBase(1) /\ ~IsBase(2) /\ IsBase(3)
    /\ Cardinality({ instances.verified[n] : n \in 1..3 }) = 3
    /\ Canonical \cap { instances.verified[n] : n \in 1..3 } = {}

\* C19: the snapshot of line 118 is taken before the recursion challenger is set
\* up and before the first proof is processed, and from then on it is the
\* reconstructed challenger as the witness carried it: no reset of and no
\* absorption into the reconstructed challenger changes it.
SnapshotTaken == pc \notin {"BuildConfig", "ReadWitness", "ClonePreReconstruct"}

C19_SnapshotFrame ==
    /\ [](SnapshotTaken => pre_reconstruct_challenger = witness_stream[5])
    /\ [](~SnapshotTaken => /\ instances.of["recursion_challenger"] = 0
                            /\ i = 0
                            /\ verify_calls = << >>
                            /\ resets = 0)
    /\ [][pc # "ClonePreReconstruct" =>
             pre_reconstruct_challenger' = pre_reconstruct_challenger]_vars
    /\ [][pc = "ClonePreReconstruct" =>
             /\ pre_reconstruct_challenger' = reconstruct_read
             /\ recursion_challenger' = None]_vars

C19_Witness ==
    /\ pc = "Done"
    /\ num_proofs = 3
    /\ resets >= 1
    /\ \A k \in 1..3 : IsBase(k)
    /\ pre_reconstruct_challenger = <<51>>
    /\ reconstruct_read = <<51>>
    /\ reconstruct_challenger # pre_reconstruct_challenger

\* C20: nothing compares the witnessed challenger with the reconstructed one: only
\* a verify_shard call can make the program unsatisfiable, so a batch whose
\* proofs are all accepted is accepted also when the witnessed challenger is not
\* the reconstructed one (with or without anything further absorbed).
C20_NoTranscriptCheck ==
    /\ [](AfterLoop => (satisfiable <=> \A k \in 1..num_proofs : Accepted(k)))
    /\ [][satisfiable' # satisfiable => pc \in {"VerifyBase", "VerifyRecursive"}]_vars
    /\ [][(pc \in {"Loop", "Compile"}) => satisfiable' = satisfiable]_vars

C20_Witness ==
    /\ pc = "Done"
    /\ num_proofs = 3
    /\ \A k \in 1..3 : IsBase(k) /\ Accepted(k)
    /\ satisfiable
    /\ ~IsPrefix(reconstruct_challenger, sp1_challenger)
    /\ sp1_challenger # reconstruct_challenger

\* C21: ProverClient::network() returns a client that holds the network prover when
\* the network feature is enabled, and panics without returning a client when it is
\* not; ProverClient::mock() and ProverClient::local() do not panic and return
\* clients that hold the mock prover and the local prover.
C21_Constructors ==
    /\ constructor \in {None, "mock", "local", "network"}
    /\ constructor = None => (client = NoClient /\ ~panicked)
    /\ constructor = "mock" => (client = [prover |-> "mock"] /\ ~panicked)
    /\ constructor = "local" => (client = [prover |-> "local"] /\ ~panicked)
    /\ constructor = "network" =>
           IF network_feature
           THEN client = [prover |-> "network"] /\ ~panicked
           ELSE client = NoClient /\ panicked
    /\ panicked => (sdk_calls = << >> /\ key_store = {} /\ proof_store = {})

C21_Witness ==
    /\ constructor = "network"
    /\ ~network_feature
    /\ panicked
    /\ client = NoClient

====
